---- MODULE Spec2Model ----
(***************************************************************************)
(* A model of the bytell-style hash map of src/src/lib.rs: one metadata    *)
(* byte per slot, 16 slots per cell, chains linked by indices into the     *)
(* jump-distance table.  The table's fields are the variables; insert,     *)
(* reallocate, find_empty, get, get_mut and the iterator are translated    *)
(* from the source as operators over a record of those fields, and the     *)
(* actions apply them.                                                     *)
(***************************************************************************)
EXTENDS Integers, Sequences, FiniteSets, TLC

(***************************************************************************)
(* Bounds of the model.                                                    *)
(***************************************************************************)
\* Distinct keys inserted under the hasher whose hashes are chosen freely.
MaxKeys == 10
\* Distinct keys inserted under the identity and the stride hashers.
MaxFill == 30
\* insert calls on a key that was inserted before, per behaviour.
MaxOverwrites == 1
\* The largest buffer, in cells, that a with_capacity call holds slot by
\* slot; a larger one is held as the number of its slots and the value that
\* every slot has when the call returns.
MaxBuildCells == 64
\* Distinct keys inserted under the hasher whose hashes never decrease.
MaxRising == 12
\* The largest buffer, in cells, that the allocator provides on the machine
\* with little memory.
MaxMemory == 128
\* Distinct keys inserted under the hasher whose hashes end the 64-bit range.
MaxTop == 6

(***************************************************************************)
(* 64-bit unsigned integers (usize, u64) as four 16-bit limbs, least       *)
(* significant first: TLC's integers are 32 bits wide, the table's hashes  *)
(* and the last jump distances are not.                                    *)
(***************************************************************************)
Limb == 2 ^ 16

U64(n) == << n % Limb, n \div Limb, 0, 0 >>

\* The carry out of the most significant limb of a + b.
add_carry(a, b) ==
  LET c0 == (a[1] + b[1]) \div Limb
      c1 == (a[2] + b[2] + c0) \div Limb
      c2 == (a[3] + b[3] + c1) \div Limb
  IN  (a[4] + b[4] + c2) \div Limb

\* usize::wrapping_add: the sum modulo 2^64.
wrapping_add(a, b) ==
  LET s0 == a[1] + b[1]
      s1 == a[2] + b[2] + (s0 \div Limb)
      s2 == a[3] + b[3] + (s1 \div Limb)
      s3 == a[4] + b[4] + (s2 \div Limb)
  IN  << s0 % Limb, s1 % Limb, s2 % Limb, s3 % Limb >>

(***************************************************************************)
(* const JUMP_DISTANCES: [usize; 126], each entry in limbs.  Entries 0..15 *)
(* are 0..15, entries 16..78 are 21, 28, 36, ..., 2556, and entries        *)
(* 79..125 run from 3741 to 5209859150892887590.                           *)
(***************************************************************************)
JUMP_DISTANCES ==
  << <<0, 0, 0, 0>>, <<1, 0, 0, 0>>, <<2, 0, 0, 0>>,
     <<3, 0, 0, 0>>, <<4, 0, 0, 0>>, <<5, 0, 0, 0>>,
     <<6, 0, 0, 0>>, <<7, 0, 0, 0>>, <<8, 0, 0, 0>>,
     <<9, 0, 0, 0>>, <<10, 0, 0, 0>>, <<11, 0, 0, 0>>,
     <<12, 0, 0, 0>>, <<13, 0, 0, 0>>, <<14, 0, 0, 0>>,
     <<15, 0, 0, 0>>, <<21, 0, 0, 0>>, <<28, 0, 0, 0>>,
     <<36, 0, 0, 0>>, <<45, 0, 0, 0>>, <<55, 0, 0, 0>>,
     <<66, 0, 0, 0>>, <<78, 0, 0, 0>>, <<91, 0, 0, 0>>,
     <<105, 0, 0, 0>>, <<120, 0, 0, 0>>, <<136, 0, 0, 0>>,
     <<153, 0, 0, 0>>, <<171, 0, 0, 0>>, <<190, 0, 0, 0>>,
     <<210, 0, 0, 0>>, <<231, 0, 0, 0>>, <<253, 0, 0, 0>>,
     <<276, 0, 0, 0>>, <<300, 0, 0, 0>>, <<325, 0, 0, 0>>,
     <<351, 0, 0, 0>>, <<378, 0, 0, 0>>, <<406, 0, 0, 0>>,
     <<435, 0, 0, 0>>, <<465, 0, 0, 0>>, <<496, 0, 0, 0>>,
     <<528, 0, 0, 0>>, <<561, 0, 0, 0>>, <<595, 0, 0, 0>>,
     <<630, 0, 0, 0>>, <<666, 0, 0, 0>>, <<703, 0, 0, 0>>,
     <<741, 0, 0, 0>>, <<780, 0, 0, 0>>, <<820, 0, 0, 0>>,
     <<861, 0, 0, 0>>, <<903, 0, 0, 0>>, <<946, 0, 0, 0>>,
     <<990, 0, 0, 0>>, <<1035, 0, 0, 0>>, <<1081, 0, 0, 0>>,
     <<1128, 0, 0, 0>>, <<1176, 0, 0, 0>>, <<1225, 0, 0, 0>>,
     <<1275, 0, 0, 0>>, <<1326, 0, 0, 0>>, <<1378, 0, 0, 0>>,
     <<1431, 0, 0, 0>>, <<1485, 0, 0, 0>>, <<1540, 0, 0, 0>>,
     <<1596, 0, 0, 0>>, <<1653, 0, 0, 0>>, <<1711, 0, 0, 0>>,
     <<1770, 0, 0, 0>>, <<1830, 0, 0, 0>>, <<1891, 0, 0, 0>>,
     <<1953, 0, 0, 0>>, <<2016, 0, 0, 0>>, <<2080, 0, 0, 0>>,
     <<2145, 0, 0, 0>>, <<2211, 0, 0, 0>>, <<2278, 0, 0, 0>>,
     <<2346, 0, 0, 0>>, <<2415, 0, 0, 0>>, <<2485, 0, 0, 0>>,
     <<2556, 0, 0, 0>>, <<3741, 0, 0, 0>>, <<8385, 0, 0, 0>>,
     <<18915, 0, 0, 0>>, <<42486, 0, 0, 0>>, <<30167, 1, 0, 0>>,
     <<18888, 3, 0, 0>>, <<26853, 7, 0, 0>>, <<42927, 16, 0, 0>>,
     <<31604, 37, 0, 0>>, <<24451, 84, 0, 0>>, <<51274, 189, 0, 0>>,
     <<2549, 427, 0, 0>>, <<57693, 960, 0, 0>>, <<11363, 2162, 0, 0>>,
     <<52022, 4864, 0, 0>>, <<23106, 10945, 0, 0>>, <<45448, 24627, 0, 0>>,
     <<21957, 55411, 0, 0>>, <<63359, 59140, 1, 0>>, <<29084, 18378, 4, 0>>,
     <<13559, 41348, 9, 0>>, <<53720, 43879, 21, 0>>, <<4132, 49580, 48, 0>>,
     <<55374, 46022, 109, 0>>, <<62635, 54404, 246, 0>>, <<31610, 24115, 555, 0>>,
     <<22109, 37863, 1249, 0>>, <<49953, 36021, 2811, 0>>, <<5587, 64693, 6325, 0>>,
     <<64418, 30997, 14233, 0>>, <<12521, 20530, 32025, 0>>, <<1575, 62482, 6520, 1>>,
     <<59824, 9654, 31056, 2>>, <<1032, 21510, 37108, 5>>, <<29957, 49358, 34341, 12>>,
     <<9567, 60463, 11732, 28>>, <<50444, 5690, 26399, 63>>, <<22447, 65199, 43013, 142>>,
     <<4980, 33632, 64013, 320>>, <<54918, 24087, 12958, 722>>, <<8911, 17781, 61924, 1624>>,
     <<52868, 34534, 8257, 3656>>, <<28766, 36760, 18579, 8226>>, <<60966, 29385, 9035, 18509>> >>

\* JUMP_DISTANCES[jump], with the source's 0-based index.
JD(jump) == JUMP_DISTANCES[jump + 1]

\* JUMP_DISTANCES.len()
JUMP_LEN == 126

(***************************************************************************)
(* struct Metadata(u8): 0xFF is empty, otherwise the high bit is the       *)
(* storage role and the low seven bits are the jump index.                 *)
(***************************************************************************)
EMPTY == 255

is_empty(b) == b = 255

\* self.0 & 0b10000000 == 0b10000000
is_storage(b) == b >= 128

\* self.0 & 0b01111111 (the assert!(!self.is_empty()) is raised by the callers)
jump_length(b) == b % 128

\* self.0 |= 0b10000000, or self.0 &= 0b01111111
set_storage(b, storage) ==
  IF storage THEN (IF b >= 128 THEN b ELSE b + 128) ELSE b % 128

\* A variant of set_jump that writes the jump index over the whole byte.
set_jump_whole(b, jump) == jump

\* self.0 &= 0b10000000; self.0 |= jump   (jump < 128 is asserted)
set_jump(b, jump) == (b \div 128) * 128 + jump

(***************************************************************************)
(* Keys and entries.  A key is an identity, which Hash and PartialEq read, *)
(* and a tag that tells apart two key objects that compare equal.          *)
(***************************************************************************)
Key(id, tag) == [id |-> id, tag |-> tag]

\* K: PartialEq
KeyEq(a, b) == a.id = b.id

Entry(key, value) == [key |-> key, value |-> value]

\* mem::zeroed(): the bytes of a slot that was never written.
ZeroEntry == Entry(Key(0, 0), 0)

None == << >>

Some(x) == << x >>

(***************************************************************************)
(* split_hash: the cell and the slot of a hash.  Slots are numbered        *)
(* 16 * cell + slot, so that meta[i] and data[i] are the metadata byte and *)
(* the entry that mut_data and get_data hand out for a hash.               *)
(***************************************************************************)
RECURSIVE BitAnd(_, _)
BitAnd(a, b) ==
  IF a = 0 \/ b = 0 THEN 0
  ELSE (a % 2) * (b % 2) + 2 * BitAnd(a \div 2, b \div 2)

\* ((hash >> 4) & (capacity - 1), hash & 15); capacity - 1 has at most 12 bits
\* here, so the low limb of the hash decides the cell.
split_hash(hash, capacity) ==
  << BitAnd(hash[1] \div 16, capacity - 1), hash[1] % 16 >>

\* mut_data / get_data: the slot a hash addresses.
mut_data(hash, capacity) ==
  LET cs == split_hash(hash, capacity) IN 16 * cs[1] + cs[2]

Slots(capacity) == 0 .. (16 * capacity - 1)

(***************************************************************************)
(* struct HashMap { ptr, size, capacity, hasher } as a record.  meta and   *)
(* data are the buffer behind ptr.  hasher maps the identities hashed so   *)
(* far to their 64-bit hashes.  status is "ok" until a call panics on one  *)
(* of the source's assertions ("panic"), walks a cycle of jumps for ever   *)
(* ("hang") or asks the allocator for a buffer that it does not provide    *)
(* ("abort"); ret is what the last insert call returned; hit is the slot and *)
(* the entry that the matching-key branch found, as it was before the      *)
(* branch wrote to it; path collects the branches the calls of one         *)
(* operation went through; moved is the first step of the last relocation; *)
(* grown counts the reallocate calls of one operation.                     *)
(* memory is the number of cells of the largest buffer that the allocator  *)
(* provides to reallocate: the machine decides it.                         *)
(* run tells how meta and data are held: FALSE for one value per slot,     *)
(* TRUE for a run (see Run below).                                         *)
(* checks is the build's overflow-checks setting, which decides whether    *)
(* `+=` on usize panics or wraps when the sum leaves the 64-bit range.  A  *)
(* new map has it set, so that any such sum shows as a panic; the          *)
(* specification whose hashes reach the end of the range draws it.         *)
(***************************************************************************)
\* The memory of a machine on which no call of the model runs out of it.
Memory == 2 ^ 30

NewMap(capacity, hasher) ==
  [ capacity |-> capacity,
    size     |-> 0,
    meta     |-> [i \in Slots(capacity) |-> EMPTY],
    data     |-> [i \in Slots(capacity) |-> ZeroEntry],
    hasher   |-> hasher,
    status   |-> "ok",
    ret      |-> None,
    hit      |-> None,
    path     |-> {},
    moved    |-> None,
    grown    |-> 0,
    memory   |-> Memory,
    run      |-> FALSE,
    checks   |-> TRUE ]

\* HashMap::with_hasher
with_hasher(hasher) == NewMap(1, hasher)

(***************************************************************************)
(* HashMap::with_capacity.  Line 189 computes the number of cells as       *)
(*   ((capacity as f32 / 16.).ceil() as usize).next_power_of_two()         *)
(***************************************************************************)
\* The distance between neighbouring f32 values at n >= 2^24: the least power
\* of two that leaves n a 24-bit significand.
RECURSIVE f32_ulp(_, _)
f32_ulp(n, u) == IF n \div u < 2 ^ 24 THEN u ELSE f32_ulp(n, 2 * u)

\* `n as f32`: n rounded to 24 significant bits, ties to even.
as_f32(n) ==
  LET u == f32_ulp(n, 1)
      q == n \div u
      r == n % u
  IN  IF 2 * r > u \/ (2 * r = u /\ q % 2 = 1) THEN (q + 1) * u ELSE q * u

\* (x / 16.).ceil() as usize, for an f32 x that holds an integer: the
\* division by a power of two is exact.
ceil_div_16(x) == (x + 15) \div 16

\* usize::next_power_of_two: the least power of two >= n (1 for n = 0).
RECURSIVE pow2_from(_, _)
pow2_from(n, p) == IF p >= n THEN p ELSE pow2_from(n, 2 * p)

next_power_of_two(n) == pow2_from(n, 1)

\* The capacity, in cells, of with_capacity(hint, ..).
capacity_for(hint) == next_power_of_two(ceil_div_16(as_f32(hint)))

\* A buffer whose slots all hold x: the number of its slots and x.
Run(slots, x) == [slots |-> slots, fill |-> x]

\* The buffer that lines 191-197 allocate and fill, when it is too large to
\* hold slot by slot: 16 * capacity slots, Metadatum::default() in every
\* metadata byte and mem::zeroed() in every entry.  The rest of the
\* struct is that of lines 200-205.  insert and the lookups are defined on
\* buffers held slot by slot only.
NewRunMap(capacity, hasher) ==
  [ NewMap(1, hasher) EXCEPT !.capacity = capacity,
                             !.meta = Run(16 * capacity, EMPTY),
                             !.data = Run(16 * capacity, ZeroEntry),
                             !.run = TRUE ]

\* Lines 190-205: a buffer of that many cells, every metadata byte 0xFF.
with_capacity(hint, hasher) ==
  IF capacity_for(hint) <= MaxBuildCells
  THEN NewMap(capacity_for(hint), hasher)
  ELSE NewRunMap(capacity_for(hint), hasher)

\* The number of slots of the buffer of t.
buffer_slots(t) == IF t.run THEN t.meta.slots ELSE Cardinality(DOMAIN t.meta)

\* Every slot of the buffer of t is empty and holds the zeroed entry, and
\* the slots are numbered from 0.
buffer_is_fresh(t) ==
  IF t.run
  THEN /\ is_empty(t.meta.fill)
       /\ t.data.fill = ZeroEntry
       /\ t.data.slots = t.meta.slots
  ELSE /\ DOMAIN t.meta = 0 .. (Cardinality(DOMAIN t.meta) - 1)
       /\ DOMAIN t.data = DOMAIN t.meta
       /\ \A i \in DOMAIN t.meta : is_empty(t.meta[i]) /\ t.data[i] = ZeroEntry

\* HashMap::hash
hash_of(t, key) == t.hasher[key.id]

Mark(t, what) == [t EXCEPT !.path = @ \cup {what}]

Fail(t, how, what) == [t EXCEPT !.status = how, !.path = @ \cup {what}]

\* hash += JUMP_DISTANCES[jump]: the sum wraps in a build without overflow
\* checks and panics in one with them (t.checks); plus_jump is the wrapped
\* sum, and the callers panic or mark the overflow.
plus_jump(hash, jump) == wrapping_add(hash, JD(jump))

overflows(hash, jump) == add_carry(hash, JD(jump)) > 0

\* A chain walk that takes more steps than there are slots has come back to a
\* slot it has left.  The walks of get, of an occupied chain and of the
\* predecessor search write nothing, so from there on they go round the same
\* slots: in a build without overflow checks the walk never ends ("hang"); in
\* one with them the cursor, which grows at every step, leaves the 64-bit
\* range in the end and the walk panics on its `+=`.
Fuel(t) == 16 * t.capacity + 1

(***************************************************************************)
(* HashMap::find_empty: the first jump index from start on whose slot,     *)
(* counted from hash, is empty; << >> when there is none.                  *)
(***************************************************************************)
\* The for loop over jumps in start .. JUMP_DISTANCES.len() - 1, which
\* returns at the first index whose slot is empty.
find_empty_from(t, hash, start) ==
  LET slot_at(jumps) == mut_data(wrapping_add(hash, JD(jumps)), t.capacity)
      empty_at(jumps) == is_empty(t.meta[slot_at(jumps)])
      first == CHOOSE jumps \in start .. (JUMP_LEN - 1) :
                 /\ empty_at(jumps)
                 /\ \A before \in start .. (jumps - 1) : ~empty_at(before)
  IN  IF \E jumps \in start .. (JUMP_LEN - 1) : empty_at(jumps)
      THEN Some([slot |-> slot_at(first), jumps |-> first])
      ELSE None

\* A variant that searches from jump index 1 whatever start is.
find_empty_restart(t, hash, start) == find_empty_from(t, hash, 1)

find_empty(t, hash, start) == find_empty_from(t, hash, start)

(***************************************************************************)
(* HashMap::get and HashMap::get_mut.  The reference they return is the    *)
(* slot it points into: get_ref is Some(slot), None, or Abort(how) when    *)
(* the walk panics (jump_length on an empty byte, hash += .. beyond 64     *)
(* bits in a build with overflow checks) or never ends.                    *)
(***************************************************************************)
Abort(how) == << how, "abort" >>

RECURSIVE get_walk(_, _, _, _)
get_walk(t, key, h, fuel) ==
  LET cur == mut_data(h, t.capacity)
      jump == jump_length(t.meta[cur])
  IN  IF KeyEq(t.data[cur].key, key) THEN Some(cur)
      ELSE IF is_empty(t.meta[cur]) THEN Abort("panic")
      ELSE IF jump = 0 THEN None
      ELSE IF t.checks /\ overflows(h, jump) THEN Abort("overflow")
      ELSE IF fuel = 0 THEN Abort(IF t.checks THEN "overflow" ELSE "hang")
      ELSE get_walk(t, key, plus_jump(h, jump), fuel - 1)

get_ref(t, key) ==
  LET h == hash_of(t, key)
  IN  IF is_storage(t.meta[mut_data(h, t.capacity)]) THEN None
      ELSE get_walk(t, key, h, Fuel(t))

\* What the reference reads: Some(value) for Some(slot).
deref(t, r) == IF Len(r) = 1 THEN Some(t.data[r[1]].value) ELSE r

get(t, key) == deref(t, get_ref(t, key))

\* get_mut is get over mutable references: the same walk over mut_data.
get_mut_ref(t, key) ==
  LET h == hash_of(t, key)
  IN  IF is_storage(t.meta[mut_data(h, t.capacity)]) THEN None
      ELSE get_walk(t, key, h, Fuel(t))

get_mut(t, key) == deref(t, get_mut_ref(t, key))

(***************************************************************************)
(* The load-factor precheck of insert:                                     *)
(*   self.size as f32 / (16 * self.capacity) as f32 > 0.872                *)
(* The f32 nearest to 0.872 is 14629732 / 2^24.  size and 16 * capacity    *)
(* are exact as f32 and so is their quotient, 16 * capacity being a power  *)
(* of two, so the comparison is one of integers.                           *)
(***************************************************************************)
LOAD_MANTISSA == 14629732

\* Variants of the precheck: the load after the insertion is compared; the
\* threshold is 15/16; the precheck is left out.
load_exceeded_after(size, capacity) ==
  (size + 1) * ((2 ^ 24) \div (16 * capacity)) > LOAD_MANTISSA

load_exceeded_late(size, capacity) ==
  size * ((2 ^ 24) \div (16 * capacity)) > 15 * (2 ^ 20)

load_exceeded_never(size, capacity) == FALSE

load_exceeded(size, capacity) ==
  size * ((2 ^ 24) \div (16 * capacity)) > LOAD_MANTISSA

(***************************************************************************)
(* HashMap::insert and HashMap::reallocate.                                *)
(***************************************************************************)
RECURSIVE insert(_, _, _)
RECURSIVE reallocate(_)
RECURSIVE reinsert_old(_, _, _, _, _)
RECURSIVE insert_walk(_, _, _, _, _)
RECURSIVE pred_walk(_, _, _, _, _)
RECURSIVE relocate_round(_, _, _)
RECURSIVE relocate_rounds(_, _, _, _)
RECURSIVE relocate_on(_, _, _, _)

\* cur_meta.set_storage(false); cur_meta.set_jump(0); ptr::write(data_ptr, ..);
\* self.size += 1; return None        (lines 219-226 and 281-289)
place_direct(t, slot, key, value) ==
  [t EXCEPT !.meta[slot] = set_jump(set_storage(@, FALSE), 0),
            !.data[slot] = Entry(key, value),
            !.size = @ + 1,
            !.ret = None]

\* A variant of the append that gives the new slot the direct-hit role.
append_at_direct(t, tail, r, key, value) ==
  LET t1 == [t EXCEPT !.meta[r.slot] = set_jump(set_storage(@, FALSE), 0)]
      t2 == [t1 EXCEPT !.meta[tail] = set_jump(@, r.jumps)]
  IN  [t2 EXCEPT !.data[r.slot] = Entry(key, value),
                 !.size = @ + 1,
                 !.ret = None,
                 !.path = @ \cup {"append"}]

\* The append at the end of a chain (lines 300-311): r is find_empty's result,
\* tail the slot whose jump was 0.
append_at(t, tail, r, key, value) ==
  LET t1 == [t EXCEPT !.meta[r.slot] = set_jump(set_storage(@, TRUE), 0)]
      t2 == [t1 EXCEPT !.meta[tail] = set_jump(@, r.jumps)]
  IN  [t2 EXCEPT !.data[r.slot] = Entry(key, value),
                 !.size = @ + 1,
                 !.ret = None,
                 !.path = @ \cup {"append"}]

\* A variant of the matching-key branch that returns the key it found.
replace_value_stored_key(t, cur, key, value) ==
  [t EXCEPT !.data[cur].value = value,
            !.ret = Some(<< t.data[cur].key, t.data[cur].value >>),
            !.hit = Some([slot |-> cur, entry |-> t.data[cur]]),
            !.path = @ \cup {"replace"}]

\* The matching-key branch (lines 294-297): the value is replaced, the key
\* that was passed in is returned with the value that was stored.
replace_value(t, cur, key, value) ==
  [t EXCEPT !.data[cur].value = value,
            !.ret = Some(<< key, t.data[cur].value >>),
            !.hit = Some([slot |-> cur, entry |-> t.data[cur]]),
            !.path = @ \cup {"replace"}]

\* The loop of lines 291-320: walk the chain of an occupied direct-hit slot.
insert_walk(t, key, value, hash, fuel) ==
  LET cur == mut_data(hash, t.capacity)
      jump == jump_length(t.meta[cur])
      found == find_empty(t, hash, 1)
  IN  IF is_empty(t.meta[cur]) THEN Fail(t, "panic", "assert_walk_empty")
      ELSE IF KeyEq(t.data[cur].key, key)
        THEN replace_value(t, cur, key, value)
      ELSE IF jump = 0
        THEN IF found # None
             THEN append_at(t, cur, found[1], key, value)
             ELSE insert(reallocate(Mark(t, "exhaust_append")), key, value)
      ELSE IF t.checks /\ overflows(hash, jump)
        THEN Fail(t, "panic", "overflow_walk")
      ELSE IF fuel = 0
        THEN IF t.checks THEN Fail(t, "panic", "overflow_walk")
             ELSE Fail(t, "hang", "walk_cycle")
      ELSE insert_walk(IF overflows(hash, jump) THEN Mark(t, "overflow") ELSE t,
                       key, value, plus_jump(hash, jump), fuel - 1)

\* The loop of lines 239-245: from the head of the visitor's chain to the slot
\* whose jump addresses the visitor (target).  The result is the hash that
\* addresses that slot, or the way the walk failed; overflow tells whether
\* their_hash += .. left the 64-bit range on the way.
pred_walk(t, their_hash, prev_hash, target, walked) ==
  LET before == t.meta[mut_data(their_hash, t.capacity)]
      result(status, what) ==
        [ status |-> status, prev_hash |-> prev_hash, what |-> what,
          overflow |-> walked.overflow ]
  IN  IF mut_data(their_hash, t.capacity) = target THEN result("ok", "found")
      ELSE IF is_empty(before) THEN result("panic", "assert_jump_length")
      ELSE IF jump_length(before) = 0 THEN result("panic", "assert_before_jump")
      ELSE IF t.checks /\ overflows(their_hash, jump_length(before))
        THEN result("panic", "overflow_pred")
      ELSE IF walked.fuel = 0
        THEN IF t.checks THEN result("panic", "overflow_pred")
             ELSE result("hang", "pred_cycle")
      ELSE pred_walk(t, plus_jump(their_hash, jump_length(before)), their_hash,
                     target,
                     [ fuel |-> walked.fuel - 1,
                       overflow |-> walked.overflow
                                    \/ overflows(their_hash, jump_length(before)) ])

\* The relocation loop of lines 255-280 and the install of lines 281-289.
\* s holds the loop's locals: cur_hash, first_jump, prev (the slot of
\* prev_meta), to_be_moved, place (to_be_moved_place), cur (the slot of
\* cur_meta), next (jump_to_next_to_be_moved); home is the direct-hit slot of
\* the caller's key, head that of the visitor's key, round the number of
\* entries moved so far.  The loop writes to the table, so the number of its
\* rounds has no bound in the number of slots.  In a build with overflow
\* checks it ends by itself, its two cursors growing in every round.  In one
\* without, it never ends once a round starts from where an earlier round
\* started (the buffer and the loop's locals, cursors as slots): seen holds
\* the starts of the rounds from the 4 * Fuel(t)-th on.
\*
\* relocate_round is one pass through the loop body, from the loop's state
\* [t, s, out] to the next: out is "loop" while the loop goes on and "done"
\* when t is the table that insert leaves.
relocate_round(st, key, value) ==
  LET t == st.t
      s == st.s
      found == find_empty(t, s.cur_hash, s.first_jump)
      tracked == ~t.checks /\ s.round >= 4 * Fuel(t)
      start == [ meta |-> t.meta, data |-> t.data,
                 cur_slot |-> mut_data(s.cur_hash, t.capacity),
                 first_jump |-> s.first_jump, prev |-> s.prev,
                 to_be_moved |-> s.to_be_moved,
                 place |-> mut_data(s.place, t.capacity),
                 cur |-> s.cur, next |-> s.next ]
      r == found[1]
      t1 == [t EXCEPT !.meta[r.slot] = set_jump(set_storage(@, TRUE), 0),
                      !.data[r.slot] = s.to_be_moved]
      t2 == [t1 EXCEPT !.meta[s.prev] = set_jump(@, r.jumps)]
      t3 == [t2 EXCEPT !.meta[s.cur] = EMPTY,
                       !.path = @ \cup (IF r.slot = s.home
                                        THEN {"relocated", "moved_into_direct_hit"}
                                        ELSE {"relocated"}),
                       !.moved = IF s.round > 0 THEN @
                                 ELSE Some([ capacity |-> t.capacity,
                                             prev |-> s.prev,
                                             prev_before |-> t.meta[s.prev],
                                             prev_after |-> t2.meta[s.prev],
                                             slot |-> r.slot,
                                             slot_before |-> t.meta[r.slot],
                                             slot_after |-> t2.meta[r.slot],
                                             entry |-> t2.data[r.slot],
                                             head |-> s.head,
                                             head_before |-> t.meta[s.head],
                                             head_after |-> t2.meta[s.head] ])]
      installed == IF is_empty(t3.meta[s.home]) THEN t3
                   ELSE Mark(t3, "install_over_live")
      place == plus_jump(s.place, s.next)
      cur == mut_data(place, t3.capacity)
      grown == reallocate(Mark(t, "exhaust_relocate"))
      done(table) == [t |-> table, s |-> s, out |-> "done"]
  IN  IF tracked /\ start \in s.seen
        THEN done(Fail(t, "hang", "relocate_cycle"))
      ELSE IF found = None
        THEN done(insert(insert(grown, s.to_be_moved.key, s.to_be_moved.value),
                         key, value))
      ELSE IF s.next = 0
        THEN done(place_direct(installed, mut_data(hash_of(t3, key), t3.capacity),
                               key, value))
      ELSE IF t3.checks /\ (overflows(s.cur_hash, r.jumps) \/ overflows(s.place, s.next))
        THEN done(Fail(t3, "panic", "overflow_relocate"))
      ELSE IF is_empty(t3.meta[cur])
        THEN done(Fail(t3, "panic", "assert_jump_length"))
      ELSE [ t |-> IF overflows(s.cur_hash, r.jumps) \/ overflows(s.place, s.next)
                   THEN Mark(t3, "overflow") ELSE t3,
             s |-> [s EXCEPT !.cur_hash = plus_jump(s.cur_hash, r.jumps),
                             !.first_jump = 1,
                             !.prev = r.slot,
                             !.to_be_moved = t3.data[cur],
                             !.place = place,
                             !.cur = cur,
                             !.next = jump_length(t3.meta[cur]),
                             !.round = @ + 1,
                             !.seen = IF tracked THEN @ \cup {start} ELSE @],
             out |-> "loop" ]

\* Up to n passes through the loop body, one after the other: the first half
\* of them, then the rest.
relocate_rounds(st, key, value, n) ==
  IF st.out = "done" \/ n = 0 THEN st
  ELSE IF n = 1 THEN relocate_round(st, key, value)
  ELSE relocate_rounds(relocate_rounds(st, key, value, n \div 2),
                       key, value, n - (n \div 2))

\* The loop, until it is left: n passes, and then twice as many if it still
\* goes on.
relocate_on(st, key, value, n) ==
  IF st.out = "done" THEN st.t
  ELSE relocate_on(relocate_rounds(st, key, value, n), key, value, 2 * n)

relocate(t, s, key, value, n) ==
  relocate_on([t |-> t, s |-> s, out |-> "loop"], key, value, n)

\* The branch of lines 227-290: the direct-hit slot holds a storage member
\* of another chain.
insert_storage(t, key, value, hash) ==
  LET cur == mut_data(hash, t.capacity)
      their_hash == hash_of(t, t.data[cur].key)
      pw == pred_walk(t, their_hash, U64(0), cur,
                      [fuel |-> Fuel(t), overflow |-> FALSE])
      prev == mut_data(pw.prev_hash, t.capacity)
  IN  IF is_storage(t.meta[mut_data(their_hash, t.capacity)])
        THEN Fail(t, "panic", "assert_head")
      ELSE IF pw.status # "ok" THEN Fail(t, pw.status, pw.what)
      ELSE IF is_empty(t.meta[prev]) THEN Fail(t, "panic", "assert_jump_length")
      ELSE relocate(IF pw.overflow THEN Mark(t, "overflow") ELSE t,
                    [ cur_hash    |-> pw.prev_hash,
                      first_jump  |-> jump_length(t.meta[prev]),
                      prev        |-> prev,
                      to_be_moved |-> t.data[cur],
                      place       |-> hash,
                      cur         |-> cur,
                      next        |-> jump_length(t.meta[cur]),
                      home        |-> cur,
                      head        |-> mut_data(their_hash, t.capacity),
                      round       |-> 0,
                      seen        |-> {} ],
                    key, value, Fuel(t))

insert(t, key, value) ==
  IF t.status # "ok" THEN t
  ELSE
    LET t1 == IF load_exceeded(t.size, t.capacity)
              THEN reallocate(Mark(t, "precheck_grow"))
              ELSE t
        h == hash_of(t1, key)
        cur == mut_data(h, t1.capacity)
    IN  IF t1.status # "ok" THEN t1
        ELSE IF is_empty(t1.meta[cur])
          THEN Mark(place_direct(t1, cur, key, value), "direct")
        ELSE IF is_storage(t1.meta[cur])
          THEN insert_storage(Mark(t1, "storage"), key, value, h)
        ELSE insert_walk(t1, key, value, h, Fuel(t1))

\* The loop of lines 407-417 over the slots lo .. hi - 1 of the old buffer,
\* in ascending order: the first half of the range, then the second.
reinsert_old(t, old_meta, old_data, lo, hi) ==
  IF t.status # "ok" \/ lo >= hi THEN t
  ELSE IF hi - lo = 1
    THEN IF is_empty(old_meta[lo]) THEN t
         ELSE insert(t, old_data[lo].key, old_data[lo].value)
  ELSE reinsert_old(reinsert_old(t, old_meta, old_data, lo, (lo + hi) \div 2),
                    old_meta, old_data, (lo + hi) \div 2, hi)

\* A variant of reallocate whose new buffer has four times the cells.
reallocate_fourfold(t) ==
  IF t.status # "ok" THEN t
  ELSE reinsert_old([t EXCEPT !.capacity = 4 * @,
                              !.size = 0,
                              !.meta = [i \in Slots(4 * t.capacity) |-> EMPTY],
                              !.data = [i \in Slots(4 * t.capacity) |-> ZeroEntry],
                              !.path = @ \cup {"grow"},
                              !.grown = @ + 1],
                    t.meta, t.data, 0, 16 * t.capacity)

\* Lines 390-393 double the capacity and reset the size before line 395
\* allocates: when the allocator does not provide the buffer
\* (Vec::with_capacity panics or aborts the process) the call never returns.
reallocate(t) ==
  IF t.status # "ok" THEN t
  ELSE IF 2 * t.capacity > t.memory
    THEN Fail([t EXCEPT !.capacity = 2 * @,
                        !.size = 0,
                        !.path = @ \cup {"grow"},
                        !.grown = @ + 1],
              "abort", "alloc")
  ELSE reinsert_old([t EXCEPT !.capacity = 2 * @,
                              !.size = 0,
                              !.meta = [i \in Slots(2 * t.capacity) |-> EMPTY],
                              !.data = [i \in Slots(2 * t.capacity) |-> ZeroEntry],
                              !.path = @ \cup {"grow"},
                              !.grown = @ + 1],
                    t.meta, t.data, 0, 16 * t.capacity)

(***************************************************************************)
(* Iter::next and the loop `for (k, v) in &map`.                           *)
(***************************************************************************)
\* One call of next on Iter(map, cell, slot): the iterator's new position
\* and the item it returns (None at the end).
RECURSIVE iter_next(_, _, _)
iter_next(t, cell, slot) ==
  IF ~(cell < t.capacity) THEN [cell |-> cell, slot |-> slot, item |-> None]
  ELSE LET cur_slot == slot
           slot1 == IF slot + 1 > 15 THEN 0 ELSE slot + 1
           cell1 == IF slot + 1 > 15 THEN cell + 1 ELSE cell
       IN  IF ~is_empty(t.meta[16 * cell + cur_slot])
           THEN [ cell |-> cell1, slot |-> slot1,
                  item |-> Some(<< t.data[16 * cell + cur_slot].key,
                                   t.data[16 * cell + cur_slot].value >>) ]
           ELSE iter_next(t, cell1, slot1)

\* The items of a whole iteration from Iter(map, cell, slot), in order.
RECURSIVE iter_rest(_, _, _)
iter_rest(t, cell, slot) ==
  LET n == iter_next(t, cell, slot)
  IN  IF n.item = None THEN << >>
      ELSE << n.item[1] >> \o iter_rest(t, n.cell, n.slot)

\* into_iter: Iter(self, 0, 0)
iterate(t) == iter_rest(t, 0, 0)

(***************************************************************************)
(* The state: the map, and what its caller knows.                          *)
(*   map        the HashMap                                                *)
(*   kind       which hasher the map was built with                        *)
(*   added      the value the caller last inserted under each identity     *)
(*              (the `added` map of the test iterator_works)               *)
(*   overwrites how many insert calls named a key inserted before          *)
(*   last       the last call: its arguments and the map's size and        *)
(*              capacity before it                                         *)
(***************************************************************************)
VARIABLES map, kind, added, overwrites, last

vars == << map, kind, added, overwrites, last >>

\* The hashes that the freely chosen hash function takes.
Hashes == { U64(0), U64(1) }

HasherKinds == { "free", "identity", "stride", "halves" }

\* The hashes of the hasher whose hashes never decrease from one new key to
\* the next.
RisingHashes == { U64(0), U64(1), U64(2), U64(3) }

\* usize::MAX and usize::MAX - 16: both address slot 15 of cell 0.
TopHashes ==
  { << Limb - 1, Limb - 1, Limb - 1, Limb - 1 >>,
    << Limb - 17, Limb - 1, Limb - 1, Limb - 1 >> }

\* The table of the probe hasher: with_capacity(ProbeHint, ..) has 8 cells.
ProbeHint == 2 ^ 7

\* The slots, other than 0 and 1, that find_empty probes from slot 0 in a
\* table of ProbeHint slots.
ProbeTargets ==
  { JD(j)[1] % ProbeHint : j \in 2 .. (JUMP_LEN - 1) } \ { 0, 1 }

RECURSIVE Ascending(_)
Ascending(S) ==
  IF S = {} THEN << >>
  ELSE LET least == CHOOSE x \in S : \A y \in S : x <= y
       IN  << least >> \o Ascending(S \ {least})

ProbeFill == Ascending(ProbeTargets)

\* The hash of a key that is hashed for the first time.  The probe hasher
\* sends the first key to slot 0, the second to slot 0 or 1, the next ones
\* to every slot that find_empty probes from slot 0, one each, and the last
\* to slot 0 or 1.  The jumps hasher gives the first key the hash 0, the
\* next 125 keys the hashes JUMP_DISTANCES[1] .. JUMP_DISTANCES[125], and
\* the key after them the hash 0 again: at every capacity each slot that
\* find_empty probes from slot 0 is the direct-hit slot of one of them.
HashChoices(k, id) ==
  CASE k = "free" -> Hashes
    [] k = "identity" -> { U64(id) }
    [] k = "stride" -> { U64(16 * id) }
    [] k = "halves" -> { U64(id \div 2) }
    [] k = "rising" ->
         { h \in RisingHashes : id = 0 \/ h[1] >= map.hasher[id - 1][1] }
    [] k = "top" -> TopHashes
    [] k = "probe" ->
         IF id = 0 THEN { U64(0) }
         ELSE IF id = 1 \/ id > Len(ProbeFill) + 1 THEN { U64(0), U64(1) }
         ELSE { U64(ProbeFill[id - 1]) }
    [] k = "jumps" ->
         IF id \in 1 .. (JUMP_LEN - 1) THEN { JD(id) } ELSE { U64(0) }

KeyBound(k) ==
  CASE k = "free" -> MaxKeys
    [] k = "rising" -> MaxRising
    [] k = "top" -> MaxTop
    [] k = "probe" -> Len(ProbeFill) + 3
    [] k = "jumps" -> JUMP_LEN + 1
    [] OTHER -> MaxFill

\* The builds: with overflow checks (TRUE) and without.
Builds == BOOLEAN

Built(t, checks) == [t EXCEPT !.checks = checks]

\* The value of the n-th insert call under an identity: all values differ.
ValueOf(id, version) == 100 * id + version

NextVersion(id) == IF id \in DOMAIN added THEN (added[id] % 100) + 1 ELSE 1

Init ==
  /\ kind \in HasherKinds
  /\ map = with_hasher(<< >>)
  /\ added = << >>
  /\ overwrites = 0
  /\ last = [op |-> "with_hasher"]

\* map.insert(key, value), the key object being tagged with its version.
Call(id, h) ==
  LET version == NextVersion(id)
      key == Key(id, version)
      value == ValueOf(id, version)
      self == [map EXCEPT !.hasher = (id :> h) @@ @, !.path = {}, !.hit = None,
                           !.moved = None, !.grown = 0]
  IN  /\ map' = insert(self, key, value)
      /\ added' = (id :> value) @@ added
      /\ last' = [ op |-> "insert", key |-> key, value |-> value,
                   size |-> map.size, capacity |-> map.capacity,
                   prior |-> IF id \in DOMAIN added THEN Some(added[id]) ELSE None ]

\* insert of a key that was never inserted: the next identity, whose hash is
\* any the hasher allows.
InsertNew ==
  /\ map.status = "ok"
  /\ Cardinality(DOMAIN added) < KeyBound(kind)
  /\ \E h \in HashChoices(kind, Cardinality(DOMAIN added)) :
       Call(Cardinality(DOMAIN added), h)
  /\ UNCHANGED << kind, overwrites >>

\* insert of a key that was inserted before.
InsertAgain ==
  /\ map.status = "ok"
  /\ overwrites < MaxOverwrites
  /\ \E id \in DOMAIN added : Call(id, map.hasher[id])
  /\ overwrites' = overwrites + 1
  /\ UNCHANGED kind

Next == InsertNew \/ InsertAgain

Spec == Init /\ [][Next]_vars

(***************************************************************************)
(* The same calls on maps whose hasher collides in other ways: hashes that *)
(* never decrease, hashes at the end of the 64-bit range (where the build  *)
(* decides what an overflowing `+=` does), and the probe hasher on a map   *)
(* that with_capacity built.                                               *)
(***************************************************************************)
InitRising ==
  /\ kind = "rising"
  /\ map = with_hasher(<< >>)
  /\ added = << >>
  /\ overwrites = 0
  /\ last = [op |-> "with_hasher"]

SpecRising == InitRising /\ [][Next]_vars

InitTop ==
  /\ kind = "top"
  /\ \E checks \in Builds : map = Built(with_hasher(<< >>), checks)
  /\ added = << >>
  /\ overwrites = 0
  /\ last = [op |-> "with_hasher"]

SpecTop == InitTop /\ [][Next]_vars

InitProbe ==
  /\ kind = "probe"
  /\ map = with_capacity(ProbeHint, << >>)
  /\ added = << >>
  /\ overwrites = 0
  /\ last = [ op |-> "with_capacity", hint |-> ProbeHint,
              cells |-> capacity_for(ProbeHint) ]

SpecProbe == InitProbe /\ [][Next]_vars

\* Hashers under which the walks of insert and get take several steps: pairs
\* of keys per slot, with growth on the load precheck, and hashes that never
\* decrease, with chains that the predecessor search walks past their head.
\* The build is the one without overflow checks, in which a walk that goes
\* round a cycle never ends.
WalkKinds == { "halves", "rising" }

InitWalks ==
  /\ kind \in WalkKinds
  /\ map = Built(with_hasher(<< >>), FALSE)
  /\ added = << >>
  /\ overwrites = 0
  /\ last = [op |-> "with_hasher"]

SpecWalks == InitWalks /\ [][Next]_vars

\* The jumps hasher on machines with little memory: buffers of up to
\* MaxMemory \div 2 cells, or of up to MaxMemory cells.
GrowthMemory == { MaxMemory \div 2, MaxMemory }

InitGrowth ==
  /\ kind = "jumps"
  /\ \E cells \in GrowthMemory :
       map = [with_hasher(<< >>) EXCEPT !.memory = cells]
  /\ added = << >>
  /\ overwrites = 0
  /\ last = [op |-> "with_hasher"]

SpecGrowth == InitGrowth /\ [][Next]_vars

(***************************************************************************)
(* with_capacity as a function of its hint: the initial states draw the    *)
(* hint, the one action builds the map of that hint.  last.cells is the    *)
(* number of cells that line 189 computes for the hint.                    *)
(***************************************************************************)
CapacityHints ==
  (0 .. 64) \cup {1000} \cup ((2 ^ 24 - 24) .. (2 ^ 24 + 40))

InitCapacity ==
  /\ kind = "identity"
  /\ map = [with_hasher(<< >>) EXCEPT !.status = "unbuilt"]
  /\ added = << >>
  /\ overwrites = 0
  /\ \E hint \in CapacityHints : last = [op |-> "hint", hint |-> hint]

WithCapacity ==
  /\ last.op = "hint"
  /\ map' = with_capacity(last.hint, << >>)
  /\ last' = [ op |-> "with_capacity", hint |-> last.hint,
               cells |-> capacity_for(last.hint) ]
  /\ UNCHANGED << kind, added, overwrites >>

NextCapacity == WithCapacity

SpecCapacity == InitCapacity /\ [][NextCapacity]_vars

(***************************************************************************)
(* Properties.                                                             *)
(***************************************************************************)
Occupied(t) == { i \in DOMAIN t.meta : ~is_empty(t.meta[i]) }

\* An insert call has returned.
Inserted == last.op = "insert" /\ map.status = "ok"

\* The call was the n-th insert of a distinct key, into a single-cell map
\* that held the n - 1 keys before it.
NthIntoSingleCell(n) ==
  /\ Inserted
  /\ last.prior = None
  /\ last.capacity = 1
  /\ last.size = n - 1
  /\ Cardinality(DOMAIN added) = n

\* C1: after inserts of pairwise distinct keys, get returns the inserted
\* value of every key.
C1_GetReturnsInserted ==
  (map.status = "ok" /\ overwrites = 0) =>
    \A id \in DOMAIN added : get(map, Key(id, 0)) = Some(added[id])

\* C2: insert of a key that is present with value v returns a pair whose
\* value is v, get then returns the new value, and size is unchanged.
C2_InsertPresentKey ==
  (Inserted /\ last.prior # None) =>
    /\ map.ret # None
    /\ map.ret[1][2] = last.prior[1]
    /\ get(map, last.key) = Some(last.value)
    /\ map.size = last.size

\* C3: iterating the map yields every live (key, value) pair exactly once
\* and nothing else.
C3_IterationYieldsLive ==
  map.status = "ok" =>
    LET items == iterate(map)
    IN  /\ Len(items) = Cardinality(DOMAIN added)
        /\ \A id \in DOMAIN added :
             \E i \in 1 .. Len(items) :
               items[i][1].id = id /\ items[i][2] = added[id]

\* C4: after every insert, size is the number of slots whose metadata is not
\* empty and the number of distinct keys inserted.
C4_SizeCountsOccupied ==
  Inserted =>
    /\ map.size = Cardinality(Occupied(map))
    /\ map.size = Cardinality(DOMAIN added)

\* size / (16 * capacity) > 0.872, in thousandths.
LoadAbove(size, capacity) == 1000 * size > 872 * 16 * capacity

\* C5 as claimed: after every insert, size / (16 * capacity) <= 0.872.
C5_LoadAtRest == Inserted => ~LoadAbove(map.size, map.capacity)

\* C5, amended: after every insert, (size - 1) / (16 * capacity) <= 0.872:
\* the load is compared before the entry is added, so at rest it exceeds
\* 0.872 by at most one entry.
C5_LoadBeforeInsert ==
  (Inserted /\ map.size >= 1) => ~LoadAbove(map.size - 1, map.capacity)

\* A grown map at rest whose load is above 0.872.
C5_Witness ==
  Inserted /\ map.capacity = 2 /\ LoadAbove(map.size, map.capacity)

\* C6 as claimed: the 15th distinct key goes into a single-cell map without
\* growth.
C6_FifteenthFits == NthIntoSingleCell(15) => map.capacity = 1

\* C6, amended: the 14th distinct key goes into a single-cell map without
\* growth and without probe exhaustion: capacity is still 1 after the call.
C6_FourteenthFits ==
  NthIntoSingleCell(14) =>
    /\ map.capacity = 1
    /\ map.path \cap {"grow", "exhaust_append", "exhaust_relocate"} = {}
    /\ map.ret = None
    /\ get(map, last.key) = Some(last.value)

C6_Witness == NthIntoSingleCell(14) /\ map.size = 14

\* C7 as claimed: the 14th distinct key into a single-cell map triggers
\* growth before the insertion.
C7_FourteenthGrows ==
  NthIntoSingleCell(14) => ("grow" \in map.path /\ map.capacity = 2)

\* C7, amended: the 15th distinct key into a single-cell map (14 keys held,
\* load 14/16 > 0.872) triggers growth before the insertion: reallocate runs
\* on the precheck and the entry is placed in a map of capacity 2.
C7_FifteenthGrows ==
  NthIntoSingleCell(15) =>
    /\ "precheck_grow" \in map.path
    /\ map.capacity = 2
    /\ get_ref(map, last.key) # None
    /\ get(map, last.key) = Some(last.value)

C7_Witness == NthIntoSingleCell(15) /\ map.capacity = 2 /\ map.ret = None

\* C8 as claimed: on a matching key, insert returns the key object that was
\* stored, with the previous value.
C8_ReturnsStoredPair ==
  (Inserted /\ map.ret # None) =>
    /\ map.hit # None
    /\ map.ret[1] = << map.hit[1].entry.key, map.hit[1].entry.value >>

\* C8, amended: on a matching key, insert returns the key object that the
\* caller passed in, with the previous value; the slot keeps the key object
\* it held and takes the new value.
C8_ReturnsIncomingKey ==
  (Inserted /\ map.ret # None) =>
    /\ map.hit # None
    /\ map.ret[1] = << last.key, map.hit[1].entry.value >>
    /\ map.data[map.hit[1].slot] = Entry(map.hit[1].entry.key, last.value)

\* A matching key whose stored object differs from the one passed in.
C8_Witness ==
  /\ Inserted
  /\ map.ret # None
  /\ map.hit # None
  /\ map.hit[1].entry.key # last.key
  /\ KeyEq(map.hit[1].entry.key, last.key)

\* C9: with_capacity(n, ..) builds an empty map of
\* next_power_of_two(ceil(n / 16)) cells, at least 1, so 16 * capacity >= n.
C9_CapacityFromHint ==
  last.op = "with_capacity" =>
    /\ map.status = "ok"
    /\ map.capacity = next_power_of_two((last.hint + 15) \div 16)
    /\ map.capacity >= 1
    /\ 16 * map.capacity >= last.hint
    /\ map.capacity = last.cells
    /\ map.size = 0
    /\ buffer_slots(map) = 16 * last.cells
    /\ buffer_is_fresh(map)

\* The identities of the chain that the occupant of a slot belongs to: the
\* keys that get finds and whose direct-hit slot is that of the occupant.
ChainOf(t, slot) ==
  { id \in DOMAIN t.hasher :
      /\ mut_data(t.hasher[id], t.capacity)
           = mut_data(hash_of(t, t.data[slot].key), t.capacity)
      /\ Len(get_ref(t, Key(id, 0))) = 1 }

\* The next call finds the direct-hit slot of its key held by a storage
\* member of another chain (and does not grow first).
StorageHit(t, h) ==
  /\ ~load_exceeded(t.size, t.capacity)
  /\ ~is_empty(t.meta[mut_data(h, t.capacity)])
  /\ is_storage(t.meta[mut_data(h, t.capacity)])

\* C10: an insert whose direct-hit slot holds a storage member of another
\* chain leaves every key of that chain retrievable with its value, and the
\* new key is retrievable too.
C10_RelocationKeepsChain ==
  [][ ( /\ last'.op = "insert"
        /\ map.status = "ok"
        /\ map'.status = "ok"
        /\ StorageHit(map, map'.hasher[last'.key.id]) )
      => ( /\ \A id \in ChainOf(map, mut_data(map'.hasher[last'.key.id], map.capacity)) :
                get(map', Key(id, 0)) = get(map, Key(id, 0))
           /\ get(map', last'.key) = Some(last'.value) ) ]_vars

\* C11: every insert call returns normally, with None or with the pair of the
\* key that was present; no assertion of insert fails.
C11_InsertReturnsNormally ==
  last.op = "insert" =>
    /\ map.status = "ok"
    /\ \/ map.ret = None
       \/ last.prior # None /\ map.ret[1][2] = last.prior[1]

\* The slot that jump index j addresses from a slot: the distances are added
\* modulo the number of slots, which divides 2^16.
Hop(t, slot, j) == (slot + JD(j)[1]) % (16 * t.capacity)

\* The slots on the way from a slot along the jump indices.
RECURSIVE ChainSlots(_, _, _)
ChainSlots(t, slot, fuel) ==
  IF is_empty(t.meta[slot]) \/ jump_length(t.meta[slot]) = 0 \/ fuel = 0
  THEN {slot}
  ELSE {slot} \cup ChainSlots(t, Hop(t, slot, jump_length(t.meta[slot])), fuel - 1)

\* The direct-hit slot of the key that a slot stores.
Home(t, slot) == mut_data(hash_of(t, t.data[slot].key), t.capacity)

\* C12: every occupied slot is reached along the jump indices from the
\* direct-hit slot of its key, and has the storage role iff it is not that
\* slot.
C12_ChainsFromDirectHit ==
  map.status = "ok" =>
    \A i \in Occupied(map) :
      /\ i \in ChainSlots(map, Home(map, i), Fuel(map))
      /\ is_storage(map.meta[i]) <=> (i # Home(map, i))

\* The occupied slots that have a successor.
Linked(t) == { i \in Occupied(t) : jump_length(t.meta[i]) # 0 }

\* C13: no occupied slot is the jump target of two slots, and no slot with
\* the direct-hit role is the jump target of any slot.
C13_NoSharedSlot ==
  map.status = "ok" =>
    \A i \in Linked(map) :
      LET target == Hop(map, i, jump_length(map.meta[i]))
      IN  /\ \A k \in Linked(map) :
               k # i => Hop(map, k, jump_length(map.meta[k])) # target
          /\ ~(target \in Occupied(map) /\ ~is_storage(map.meta[target]))

\* C14: a relocation writes no moved entry into the direct-hit slot of the
\* caller's key, and that slot is empty when the caller's entry is installed.
C14_DirectHitStaysEmpty ==
  Inserted =>
    map.path \cap {"moved_into_direct_hit", "install_over_live"} = {}

\* What get returns for every key that was hashed.
Retrievable(t) == [id \in DOMAIN t.hasher |-> get(t, Key(id, 0))]

\* C15: reallocate doubles the capacity and leaves size and what get returns
\* for every key as they were, in every state at rest.
C15_GrowthPreserves ==
  map.status = "ok" =>
    LET grown == reallocate(map)
    IN  /\ grown.status = "ok"
        /\ grown.capacity = 2 * map.capacity
        /\ grown.size = map.size
        /\ Retrievable(grown) = Retrievable(map)

\* C16: in the first step of a relocation the predecessor's new jump index
\* is greater than the one it held, it addresses the slot that the moved
\* entry went to, that slot was empty and gets the storage role and jump 0,
\* and the predecessor and the chain head keep their roles, direct-hit for
\* the head.
C16_FirstMoveLinksForward ==
  (Inserted /\ map.moved # None) =>
    LET m == map.moved[1]
    IN  /\ jump_length(m.prev_after) > jump_length(m.prev_before)
        /\ is_storage(m.prev_after) = is_storage(m.prev_before)
        /\ (m.prev + JD(jump_length(m.prev_after))[1]) % (16 * m.capacity) = m.slot
        /\ m.slot_before = EMPTY
        /\ m.slot_after = 128
        /\ ~is_storage(m.head_before)
        /\ ~is_storage(m.head_after)

\* A relocation whose predecessor is a storage member, not the chain head,
\* and whose new jump index skips an occupied slot.
C16_Witness ==
  /\ Inserted
  /\ map.moved # None
  /\ map.moved[1].prev # map.moved[1].head
  /\ is_storage(map.moved[1].prev_after)
  /\ jump_length(map.moved[1].prev_after) > jump_length(map.moved[1].prev_before) + 1

\* The last slot on the way from a slot along the jump indices.
RECURSIVE ChainTail(_, _, _)
ChainTail(t, slot, fuel) ==
  IF is_empty(t.meta[slot]) \/ jump_length(t.meta[slot]) = 0 \/ fuel = 0
  THEN slot
  ELSE ChainTail(t, Hop(t, slot, jump_length(t.meta[slot])), fuel - 1)

\* The first jump index from j on that addresses an empty slot from a slot;
\* JUMP_LEN when there is none.
RECURSIVE FirstEmptyJump(_, _, _)
FirstEmptyJump(t, slot, j) ==
  IF j >= JUMP_LEN \/ is_empty(t.meta[Hop(t, slot, j)]) THEN j
  ELSE FirstEmptyJump(t, slot, j + 1)

\* t2 is t with the entry appended behind tail under jump index j.
AppendedBehind(t, t2, tail, j, entry) ==
  /\ j < JUMP_LEN
  /\ t2.meta = [t.meta EXCEPT
                  ![Hop(t, tail, j)] = 128,
                  ![tail] = IF t.meta[tail] >= 128 THEN 128 + j ELSE j]
  /\ t2.data = [t.data EXCEPT ![Hop(t, tail, j)] = entry]
  /\ t2.size = t.size + 1
  /\ t2.capacity = t.capacity
  /\ t2.ret = None

\* t2 is t with the entry appended to the chain of a direct-hit slot.
AppendedTo(t, t2, tail, entry) ==
  AppendedBehind(t, t2, tail, FirstEmptyJump(t, tail, 1), entry)

\* C17: an insert that appends to the chain of its occupied direct-hit slot
\* puts the entry into the first empty slot in probe order from the chain's
\* tail, with the storage role and jump 0, writes that jump index into the
\* tail, whose role stays, and changes no other slot.
C17_AppendAtFirstEmpty ==
  [][ (last'.op = "insert" /\ map'.status = "ok" /\ map'.path = {"append"}) =>
        AppendedTo(map, map',
                   ChainTail(map, mut_data(map'.hasher[last'.key.id], map.capacity),
                             Fuel(map)),
                   Entry(last'.key, last'.value)) ]_vars

\* capacity 1, hashes 0 and 16: the second key is in slot 1 and slot 0's
\* jump is 1.
C17_Witness ==
  /\ Inserted
  /\ kind = "stride"
  /\ Cardinality(DOMAIN added) = 2
  /\ map.path = {"append"}
  /\ map.capacity = 1
  /\ map.meta[0] = 1
  /\ map.meta[1] = 128
  /\ map.data[1] = Entry(last.key, last.value)
  /\ map.hasher[last.key.id] = U64(16)

\* The map as a key that was never inserted sees it: the next identity,
\* hashed to h.
Stranger == Key(Cardinality(DOMAIN added), 0)

WithStranger(h) == [map EXCEPT !.hasher = (Stranger.id :> h) @@ @]

\* The hashes tried for a key that was never inserted: one per slot, and the
\* hashes that the map's hasher has given out.
StrangerHashes ==
  { U64(slot) : slot \in Slots(map.capacity) }
    \cup { map.hasher[id] : id \in DOMAIN map.hasher }

\* C18: get and get_mut return None for a key that was never inserted,
\* whatever slot it hashes to, and agree on the presence of every key.
C18_AbsentKeyIsNone ==
  map.status = "ok" =>
    /\ \A h \in StrangerHashes :
         /\ get(WithStranger(h), Stranger) = None
         /\ get_mut(WithStranger(h), Stranger) = None
    /\ \A id \in DOMAIN added :
         (get(map, Key(id, 0)) = None) <=> (get_mut(map, Key(id, 0)) = None)

\* C19: no step of a probe cursor fails, in insert, get or get_mut, also
\* when hash + distance leaves the 64-bit range, and the walks of get and
\* get_mut arrive at the slot that find_empty chose for every key.
C19_ProbeStepWraps ==
  /\ map.path \cap {"overflow_walk", "overflow_pred", "overflow_relocate"} = {}
  /\ map.status = "ok" =>
       \A id \in DOMAIN added :
         /\ get(map, Key(id, 0)) = Some(added[id])
         /\ get_mut(map, Key(id, 0)) = Some(added[id])

\* No key is stored in two occupied slots.
NoDuplicate(t) ==
  \A i, k \in Occupied(t) : i # k => ~KeyEq(t.data[i].key, t.data[k].key)

\* C20: no key is held in two slots, and an insert of a new key that falls
\* back to growth from a relocation inserts the entry in flight once: no
\* insert call of the operation finds its key in the table already.
C20_MovedOnce ==
  Inserted =>
    /\ NoDuplicate(map)
    /\ ("exhaust_relocate" \in map.path /\ last.prior = None) => map.hit = None

\* The walk from a slot along the jump indices comes to a slot without a
\* successor within fuel steps.
RECURSIVE WalkEnds(_, _, _)
WalkEnds(t, slot, fuel) ==
  IF is_empty(t.meta[slot]) \/ jump_length(t.meta[slot]) = 0 THEN TRUE
  ELSE IF fuel = 0 THEN FALSE
  ELSE WalkEnds(t, Hop(t, slot, jump_length(t.meta[slot])), fuel - 1)

\* The jump links form no cycle: a walk that does not come back to a slot
\* takes fewer steps than there are slots.
Acyclic(t) == \A i \in Linked(t) : WalkEnds(t, i, 16 * t.capacity)

\* The number of steps from a slot to the end of its chain.
RECURSIVE Steps(_, _, _)
Steps(t, slot, fuel) ==
  IF is_empty(t.meta[slot]) \/ jump_length(t.meta[slot]) = 0 \/ fuel = 0 THEN 0
  ELSE 1 + Steps(t, Hop(t, slot, jump_length(t.meta[slot])), fuel - 1)

\* The least capacity, from the given one on, at which a table of that many
\* entries passes the load precheck of line 209.
RECURSIVE CellsFor(_, _)
CellsFor(size, capacity) ==
  IF load_exceeded(size, capacity) THEN CellsFor(size, 2 * capacity)
  ELSE capacity

\* C21: every insert, get and get_mut call ends: no walk of insert (the walk
\* of an occupied chain, the predecessor search, the relocation loop) goes
\* round a cycle, the growth and retry of a call end (a call runs out of
\* memory only when the keys inserted do not fit the largest buffer at the
\* load that the precheck allows), the jump links of the table form no
\* cycle, and get and get_mut end for the key of the last call and for a
\* key that was never inserted and walks the same chain to its end.
C21_WalksEnd ==
  /\ map.status # "hang"
  /\ map.status = "abort" =>
       CellsFor(Cardinality(DOMAIN added), 1) > map.memory
  /\ map.status = "ok" =>
       /\ Acyclic(map)
       /\ last.op = "insert" =>
            /\ get(map, last.key) # Abort("hang")
            /\ get_mut(map, last.key) # Abort("hang")
            /\ get(WithStranger(map.hasher[last.key.id]), Stranger) # Abort("hang")
            /\ get_mut(WithStranger(map.hasher[last.key.id]), Stranger) # Abort("hang")

\* An insert whose predecessor search walked past the chain head and that
\* relocated a chain member, in a table with a chain of three steps or more.
C21_Witness ==
  /\ Inserted
  /\ "relocated" \in map.path
  /\ map.moved # None
  /\ map.moved[1].prev # map.moved[1].head
  /\ \E i \in Linked(map) : Steps(map, i, 16 * map.capacity) >= 3

IsPowerOfTwo(n) == n >= 1 /\ next_power_of_two(n) = n

\* C22: the capacity is a power of two, at least 1, in every state, and so
\* is the number of cells that with_capacity computes for a hint; an
\* insert call never lowers it and leaves it at the capacity before the call
\* times two for every growth of the call, so unchanged without growth.
C22_CapacityDoubles ==
  /\ IsPowerOfTwo(map.capacity)
  /\ last.op = "with_capacity" => IsPowerOfTwo(last.cells)
  /\ last.op = "insert" =>
       /\ map.capacity >= last.capacity
       /\ map.capacity = last.capacity * 2 ^ map.grown
       /\ (map.grown = 0) <=> ("grow" \notin map.path)

\* The second growth of a map: from 2 cells to 4.
C22_Witness ==
  /\ Inserted
  /\ map.grown = 1
  /\ last.capacity = 2
  /\ map.capacity = 4

\* The values of a metadata byte, and the jump indices that index
\* JUMP_DISTANCES.
Bytes == 0 .. 255

JumpIndices == 0 .. (JUMP_LEN - 1)

\* set_jump writes the low seven bits and keeps the role bit; set_storage
\* writes the role bit and keeps the low seven bits; the two calls that fill
\* an empty byte leave 0x00 for a direct hit and 0x80 for a storage member.
MetadataLaws ==
  /\ \A b \in Bytes : \A j \in JumpIndices :
       /\ is_storage(set_jump(b, j)) = is_storage(b)
       /\ set_jump(b, j) % 128 = j
       /\ ~is_empty(set_jump(b, j))
  /\ \A b \in Bytes : \A storage \in BOOLEAN :
       /\ set_storage(b, storage) % 128 = b % 128
       /\ is_storage(set_storage(b, storage)) = storage
  /\ set_jump(set_storage(EMPTY, FALSE), 0) = 0
  /\ set_jump(set_storage(EMPTY, TRUE), 0) = 128

\* C23: every metadata byte is 0xFF or holds a jump index of at most 125, so
\* the byte of an occupied slot is never 0xFF; set_jump keeps the role bit
\* and set_storage the low seven bits; the slot that an insert fills as a
\* direct hit holds 0x00 and the slot that an append fills holds 0x80.
C23_EmptyIsFF ==
  /\ \A i \in DOMAIN map.meta :
       /\ map.meta[i] \in Bytes
       /\ ~is_empty(map.meta[i]) => jump_length(map.meta[i]) \in JumpIndices
  /\ MetadataLaws
  /\ (Inserted /\ map.path = {"direct"}) =>
       /\ map.meta[mut_data(hash_of(map, last.key), map.capacity)] = 0
       /\ map.data[mut_data(hash_of(map, last.key), map.capacity)]
            = Entry(last.key, last.value)
  /\ (Inserted /\ map.path = {"append"}) =>
       \E i \in Occupied(map) :
         /\ map.data[i] = Entry(last.key, last.value)
         /\ map.meta[i] = 128

\* A table after a relocation that holds an empty slot, a direct hit and a
\* storage member with a successor, and a storage member without one.
C23_Witness ==
  /\ Inserted
  /\ "relocated" \in map.path
  /\ \E i \in DOMAIN map.meta : is_empty(map.meta[i])
  /\ \E i \in Linked(map) : ~is_storage(map.meta[i])
  /\ \E i \in Linked(map) : is_storage(map.meta[i])
  /\ \E i \in Occupied(map) : map.meta[i] = 128

====
